---- MODULE Spec2Model ----
(***************************************************************************)
(* Model of drorm-cli's migration compiler, migration_to_sql               *)
(* (drorm-cli/src/migrate/sql_builder.rs), over the Migration / Operation  *)
(* declarations of drorm-cli/src/declaration.rs.                           *)
(*                                                                         *)
(* The function is modelled step by step: one action per match arm of the  *)
(* loop over migration.operations, one for the transaction's finish, one   *)
(* for the return.  The rorm_sql backend (DBImpl and its builders) is not  *)
(* part of the sources at hand; it is modelled from the specification's    *)
(* Backend Capability Interface as immutable builder values.               *)
(***************************************************************************)
EXTENDS Naturals, Sequences, FiniteSets

\* ------------------------------------------------------------------ bounds

\* Longest operations list of a migration handed to migration_to_sql.
MaxOps == 2
\* Longest field list of a CreateModel operation.
MaxFields == 2
\* Number of migration_to_sql calls recorded in one run of SpecHist.
MaxCalls == 3

\* ------------------------------------------------------------------ inputs

\* rorm_sql::imr::Field values: name, db_type, annotations.
FieldId == [name |-> "id", db_type |-> "INT64", annotations |-> <<"PrimaryKey">>]
FieldName == [name |-> "name", db_type |-> "VARCHAR", annotations |-> <<>>]
Fields == {FieldId, FieldName}

FieldSeqs == UNION {[1..n -> Fields] : n \in 0..MaxFields}

\* The six variants of declaration.rs's Operation, tagged by "Type" as in
\* the serialized form.
CreateModelOps ==
    {[Type |-> "CreateModel", name |-> "user", fields |-> fs] : fs \in FieldSeqs}
RenameModelOp == [Type |-> "RenameModel", old |-> "user", new |-> "person"]
DeleteModelOp == [Type |-> "DeleteModel", name |-> "person"]
CreateFieldOp == [Type |-> "CreateField", model |-> "user", field |-> FieldName]
RenameFieldOp ==
    [Type |-> "RenameField", table_name |-> "user", old |-> "name", new |-> "nick"]
DeleteFieldOp == [Type |-> "DeleteField", model |-> "user", name |-> "id"]

Operation ==
    CreateModelOps
        \cup {RenameModelOp, DeleteModelOp, CreateFieldOp, RenameFieldOp, DeleteFieldOp}

OperationSeqs == UNION {[1..n -> Operation] : n \in 0..MaxOps}

\* declaration.rs's Migration: hash, initial, id, dependency, replaces,
\* operations.
MigrationOf(id, initial, dependency, ops) ==
    [hash |-> "hash", initial |-> initial, id |-> id, dependency |-> dependency,
     replaces |-> <<>>, operations |-> ops]

Migration ==
    {MigrationOf("0001", TRUE, "", ops) : ops \in OperationSeqs}
        \cup {MigrationOf("0002", FALSE, "0001", ops) : ops \in OperationSeqs}

\* The migrations compiled in the recorded runs: an initial migration,
\* versions of its successor (among them the empty one) and a third.
Directory ==
    { MigrationOf("0001", TRUE, "",
        << [Type |-> "CreateModel", name |-> "user", fields |-> <<FieldId, FieldName>>] >>),
      MigrationOf("0002", FALSE, "0001", << RenameModelOp >>),
      MigrationOf("0002", FALSE, "0001", << DeleteFieldOp, RenameModelOp >>),
      MigrationOf("0002", FALSE, "0001", << CreateFieldOp, RenameFieldOp >>),
      MigrationOf("0002", FALSE, "0001", << >>),
      MigrationOf("0003", FALSE, "0002", << DeleteModelOp >>) }

\* ------------------------------------------------- backend (rorm_sql::DBImpl)

\* The constructs a dialect may refuse to build.
Constructs ==
    {"CreateTable", "DropTable", "RenameTo", "AddColumn", "RenameColumnTo", "DropColumn"}

\* A dialect: the constructs its build() rejects, and whether finish() can
\* frame a transaction.  A dialect holds no other state.
DBImpl ==
    {[unsupported |-> {}, transactions |-> TRUE],
     [unsupported |-> {}, transactions |-> FALSE]}
        \cup {[unsupported |-> {c}, transactions |-> TRUE] : c \in Constructs}

DBImpl_start_transaction(db) == << >>

add_statement(tx, statement) == Append(tx, statement)

finish(db, tx) ==
    IF db.transactions
    THEN [tag |-> "Ok", value |-> [statements |-> tx]]
    ELSE [tag |-> "Err", cause |-> <<"unsupported", "Transaction">>]

DBImpl_create_table(db, name) ==
    [builder |-> "CreateTable", name |-> name, columns |-> << >>]

add_column(table, column) == [table EXCEPT !.columns = Append(@, column)]

DBImpl_create_column(db, table, field_name, db_type, annotations) ==
    [table |-> table, name |-> field_name, db_type |-> db_type,
     annotations |-> annotations]

DBImpl_alter_table(db, table, operation) ==
    [builder |-> "AlterTable", name |-> table, operation |-> operation]

DBImpl_drop_table(db, name) == [builder |-> "DropTable", name |-> name]

ConstructOf(b) == IF b.builder = "AlterTable" THEN b.operation.Type ELSE b.builder

build(db, b) ==
    IF ConstructOf(b) \in db.unsupported
    THEN [tag |-> "Err", cause |-> <<"unsupported", ConstructOf(b)>>]
    ELSE [tag |-> "Ok", value |-> b]

\* ------------------------------------------------------------------- state

VARIABLES
    db_impl,       \* the dialect every call of the run is given
    migration,     \* the migration the current (or last) call was given
    before,        \* that migration as it was when the call began
    pc,            \* "idle" | "loop" | "fields" | "done"
    transaction,   \* the transaction builder of the call
    i,             \* 1-based position of the operation the loop is at
    create_table,  \* the table builder of the CreateModel arm
    j,             \* 1-based position of the field the inner loop is at
    result,        \* what the call returns
    calls,         \* the backend calls of the call so far, in order
    history        \* the calls completed so far (SpecHist)

vars ==
    <<db_impl, migration, before, pc, transaction, i, create_table, j, result,
      calls, history>>

NoMigration == MigrationOf("", FALSE, "", << >>)
NoBuilder == [builder |-> "None"]
NoResult == [tag |-> "None"]

Init ==
    /\ db_impl \in DBImpl
    /\ migration = NoMigration
    /\ before = NoMigration
    /\ pc = "idle"
    /\ transaction = << >>
    /\ i = 0
    /\ create_table = NoBuilder
    /\ j = 0
    /\ result = NoResult
    /\ calls = << >>
    /\ history = << >>

\* ------------------------------------------- migration_to_sql, its pieces

\* One backend call made for the operation at position pos (0: the
\* transaction itself); ok is whether the call returned a value.
BackendCall(fn, pos, ok) == [fn |-> fn, pos |-> pos, ok |-> ok]

\* format!("Could not ... for migration {}", migration.id.as_str())
Context(template, m) == <<template, m.id>>

\* Result::with_context: an Err is wrapped with the context, an Ok kept.
with_context(r, context) ==
    IF r.tag = "Ok" THEN r
    ELSE [tag |-> "Err", context |-> context, cause |-> r.cause]

\* db_impl.create_column(<table>, field.name, field.db_type, field.annotations)
ColumnOf(db, table, field) ==
    DBImpl_create_column(db, table, field.name, field.db_type, field.annotations)

\* The rename with its two names in each other's place.
RenameModelBuilderSwapped(db, op) ==
    DBImpl_alter_table(db, op.new, [Type |-> "RenameTo", name |-> op.old])

RenameModelBuilder(db, op) ==
    DBImpl_alter_table(db, op.old, [Type |-> "RenameTo", name |-> op.new])

DeleteModelBuilder(db, op) == DBImpl_drop_table(db, op.name)

CreateFieldBuilder(db, op) ==
    DBImpl_alter_table(db, op.model,
        [Type |-> "AddColumn", operation |-> ColumnOf(db, op.model, op.field)])

RenameFieldBuilder(db, op) ==
    DBImpl_alter_table(db, op.table_name,
        [Type |-> "RenameColumnTo", column_name |-> op.old, new_column_name |-> op.new])

DeleteFieldBuilder(db, op) ==
    DBImpl_alter_table(db, op.model, [Type |-> "DropColumn", name |-> op.name])

\* The fields walked from the last to the first.
FieldAtReversed(fields, k) == fields[Len(fields) + 1 - k]

\* The field the inner loop of the CreateModel arm is at.
FieldAt(fields, k) == fields[k]

\* The operations drained out of the migration once the loop is through.
DrainOperations ==
    IF pc = "loop" /\ i > Len(migration.operations)
    THEN migration' = [migration EXCEPT !.operations = << >>]
    ELSE UNCHANGED migration

\* migration is borrowed immutably (&Migration): no step assigns to it.
BorrowMigration == UNCHANGED migration

\* AddBuilt with each statement put into a transaction started anew.
AddBuiltRestarting(b, template, made) ==
    LET r == with_context(build(db_impl, b), Context(template, migration))
    IN  IF r.tag = "Ok"
        THEN /\ transaction' = add_statement(DBImpl_start_transaction(db_impl), r.value)
             /\ i' = i + 1
             /\ pc' = "loop"
             /\ result' = result
             /\ calls' = calls \o made
                    \o <<BackendCall("build", i, TRUE), BackendCall("add_statement", i, TRUE)>>
        ELSE /\ result' = r
             /\ pc' = "done"
             /\ calls' = calls \o made \o <<BackendCall("build", i, FALSE)>>
             /\ UNCHANGED <<transaction, i>>

\* AddBuilt with a failed build skipped and the loop going on.
AddBuiltSkipping(b, template, made) ==
    LET r == with_context(build(db_impl, b), Context(template, migration))
    IN  IF r.tag = "Ok"
        THEN /\ transaction' = add_statement(transaction, r.value)
             /\ i' = i + 1
             /\ pc' = "loop"
             /\ result' = result
             /\ calls' = calls \o made
                    \o <<BackendCall("build", i, TRUE), BackendCall("add_statement", i, TRUE)>>
        ELSE /\ i' = i + 1
             /\ pc' = "loop"
             /\ calls' = calls \o made \o <<BackendCall("build", i, FALSE)>>
             /\ UNCHANGED <<transaction, result>>

\* AddBuilt with a failed build leaving the loop (break) instead of the
\* function, so that what was built so far is still finished.
AddBuiltBreaking(b, template, made) ==
    LET r == with_context(build(db_impl, b), Context(template, migration))
    IN  IF r.tag = "Ok"
        THEN /\ transaction' = add_statement(transaction, r.value)
             /\ i' = i + 1
             /\ pc' = "loop"
             /\ result' = result
             /\ calls' = calls \o made
                    \o <<BackendCall("build", i, TRUE), BackendCall("add_statement", i, TRUE)>>
        ELSE /\ i' = Len(migration.operations) + 1
             /\ pc' = "loop"
             /\ calls' = calls \o made \o <<BackendCall("build", i, FALSE)>>
             /\ UNCHANGED <<transaction, result>>

\* transaction = transaction.add_statement(<builder>.build().with_context(..)?):
\* the built statement is appended and the loop moves on; a failed build
\* returns the wrapped error from the function at once.
AddBuilt(b, template, made) ==
    LET r == with_context(build(db_impl, b), Context(template, migration))
    IN  IF r.tag = "Ok"
        THEN /\ transaction' = add_statement(transaction, r.value)
             /\ i' = i + 1
             /\ pc' = "loop"
             /\ result' = result
             /\ calls' = calls \o made
                    \o <<BackendCall("build", i, TRUE), BackendCall("add_statement", i, TRUE)>>
        ELSE /\ result' = r
             /\ pc' = "done"
             /\ calls' = calls \o made \o <<BackendCall("build", i, FALSE)>>
             /\ UNCHANGED <<transaction, i>>

AtOperation(type) ==
    /\ pc = "loop"
    /\ i <= Len(migration.operations)
    /\ migration.operations[i].Type = type

\* ----------------------------------------------------------------- actions

\* Enter with the transaction builder of the call before taken over.
EnterReusing(m) ==
    /\ pc = "idle"
    /\ migration' = m
    /\ before' = m
    /\ i' = 1
    /\ pc' = "loop"
    /\ result' = NoResult
    /\ calls' = <<BackendCall("start_transaction", 0, TRUE)>>
    /\ UNCHANGED <<db_impl, transaction, create_table, j, history>>

\* Enter with the transaction builder of a call that failed taken over.
EnterKeepingFailed(m) ==
    /\ pc = "idle"
    /\ migration' = m
    /\ before' = m
    /\ transaction' =
           IF result.tag = "Err" THEN transaction
           ELSE DBImpl_start_transaction(db_impl)
    /\ i' = 1
    /\ pc' = "loop"
    /\ result' = NoResult
    /\ calls' = <<BackendCall("start_transaction", 0, TRUE)>>
    /\ UNCHANGED <<db_impl, create_table, j, history>>

\* Entry of migration_to_sql(db_impl, &m): the transaction is started.
Enter(m) ==
    /\ pc = "idle"
    /\ migration' = m
    /\ before' = m
    /\ transaction' = DBImpl_start_transaction(db_impl)
    /\ i' = 1
    /\ pc' = "loop"
    /\ result' = NoResult
    /\ calls' = <<BackendCall("start_transaction", 0, TRUE)>>
    /\ UNCHANGED <<db_impl, create_table, j, history>>

\* Operation::CreateModel { name, fields }: the table builder is made.
CreateModel ==
    /\ AtOperation("CreateModel")
    /\ create_table' = DBImpl_create_table(db_impl, migration.operations[i].name)
    /\ j' = 1
    /\ pc' = "fields"
    /\ calls' = Append(calls, BackendCall("create_table", i, TRUE))
    /\ BorrowMigration
    /\ UNCHANGED <<db_impl, before, transaction, i, result, history>>

\* for field in fields: create_table = create_table.add_column(create_column(..))
AddColumn ==
    /\ pc = "fields"
    /\ j <= Len(migration.operations[i].fields)
    /\ LET op == migration.operations[i]
       IN  create_table' =
               add_column(create_table,
                          ColumnOf(db_impl, op.name, FieldAt(op.fields, j)))
    /\ j' = j + 1
    /\ calls' = calls
           \o <<BackendCall("create_column", i, TRUE), BackendCall("add_column", i, TRUE)>>
    /\ BorrowMigration
    /\ UNCHANGED <<db_impl, before, pc, transaction, i, result, history>>

\* create_table.build() ends the CreateModel arm; the builder is consumed.
CreateModelBuild ==
    /\ pc = "fields"
    /\ j > Len(migration.operations[i].fields)
    /\ AddBuilt(create_table, "Could not build create table operation for migration {}",
                << >>)
    /\ create_table' = NoBuilder
    /\ j' = 0
    /\ BorrowMigration
    /\ UNCHANGED <<db_impl, before, history>>

RenameModel ==
    /\ AtOperation("RenameModel")
    /\ AddBuilt(RenameModelBuilder(db_impl, migration.operations[i]),
                "Could not build rename table operation for migration {}",
                <<BackendCall("alter_table", i, TRUE)>>)
    /\ BorrowMigration
    /\ UNCHANGED <<db_impl, before, create_table, j, history>>

DeleteModel ==
    /\ AtOperation("DeleteModel")
    /\ AddBuilt(DeleteModelBuilder(db_impl, migration.operations[i]),
                "Could not build drop table operation for migration {}",
                <<BackendCall("drop_table", i, TRUE)>>)
    /\ BorrowMigration
    /\ UNCHANGED <<db_impl, before, create_table, j, history>>

CreateField ==
    /\ AtOperation("CreateField")
    /\ AddBuilt(CreateFieldBuilder(db_impl, migration.operations[i]),
                "Could not build add column operation for migration {}",
                <<BackendCall("create_column", i, TRUE), BackendCall("alter_table", i, TRUE)>>)
    /\ BorrowMigration
    /\ UNCHANGED <<db_impl, before, create_table, j, history>>

RenameField ==
    /\ AtOperation("RenameField")
    /\ AddBuilt(RenameFieldBuilder(db_impl, migration.operations[i]),
                "Could not build rename field operation for migration {}",
                <<BackendCall("alter_table", i, TRUE)>>)
    /\ BorrowMigration
    /\ UNCHANGED <<db_impl, before, create_table, j, history>>

DeleteField ==
    /\ AtOperation("DeleteField")
    /\ AddBuilt(DeleteFieldBuilder(db_impl, migration.operations[i]),
                "Could not build drop column operation for migration {}",
                <<BackendCall("alter_table", i, TRUE)>>)
    /\ BorrowMigration
    /\ UNCHANGED <<db_impl, before, create_table, j, history>>

\* Finish with a transaction of no statement refused.
FinishRefusingEmpty ==
    /\ pc = "loop"
    /\ i > Len(migration.operations)
    /\ LET r == IF transaction = << >>
                THEN [tag |-> "Err", context |-> Context("Nothing to do for migration {}",
                                                         migration),
                      cause |-> <<"empty">>]
                ELSE with_context(finish(db_impl, transaction),
                                  Context("Could not create transaction for migration {}",
                                          migration))
       IN  /\ result' = r
           /\ calls' = IF transaction = << >> THEN calls
                       ELSE Append(calls, BackendCall("finish", 0, r.tag = "Ok"))
    /\ pc' = "done"
    /\ BorrowMigration
    /\ UNCHANGED <<db_impl, before, transaction, i, create_table, j, history>>

\* Ok(transaction.finish().with_context(..)?) once the loop has ended.
Finish ==
    /\ pc = "loop"
    /\ i > Len(migration.operations)
    /\ LET r == with_context(finish(db_impl, transaction),
                             Context("Could not create transaction for migration {}",
                                     migration))
       IN  /\ result' = r
           /\ calls' = Append(calls, BackendCall("finish", 0, r.tag = "Ok"))
    /\ pc' = "done"
    /\ BorrowMigration
    /\ UNCHANGED <<db_impl, before, transaction, i, create_table, j, history>>

\* The call returns its result to the caller.  What the frame held (the
\* transaction builder, the loop positions) is dead from here on; its last
\* values are left in place, so that a later call reading them would show.
Leave ==
    /\ pc = "done"
    /\ pc' = "idle"
    /\ BorrowMigration
    /\ UNCHANGED <<db_impl, before, transaction, i, create_table, j, result, calls>>

\* The return, with the caller keeping what it passed and what it got.
ReturnRecorded ==
    /\ Leave
    /\ history' = Append(history, [migration |-> before, result |-> result, position |-> i])

\* The return, with the caller dropping the result and the frame popped.
Return ==
    /\ pc = "done"
    /\ pc' = "idle"
    /\ migration' = NoMigration
    /\ before' = NoMigration
    /\ transaction' = << >>
    /\ i' = 0
    /\ result' = NoResult
    /\ calls' = << >>
    /\ UNCHANGED <<db_impl, create_table, j, history>>

Call == pc = "idle" /\ \E m \in Migration : Enter(m)

CallRecorded ==
    pc = "idle" /\ Len(history) < MaxCalls /\ \E m \in Directory : Enter(m)

Step ==
    \/ CreateModel
    \/ AddColumn
    \/ CreateModelBuild
    \/ RenameModel
    \/ DeleteModel
    \/ CreateField
    \/ RenameField
    \/ DeleteField
    \/ Finish

Next == Call \/ Step \/ Return

Spec == Init /\ [][Next]_vars

NextHist == CallRecorded \/ Step \/ ReturnRecorded

SpecHist == Init /\ [][NextHist]_vars

\* ------------------------------------------------------------ properties

Ops == migration.operations

\* The row of the compiler's table for an operation: the statement the
\* operation is to be compiled to.
TableRow(op) ==
    CASE op.Type = "CreateModel" ->
            [builder |-> "CreateTable", name |-> op.name,
             columns |-> [k \in 1..Len(op.fields) |->
                             [table |-> op.name, name |-> op.fields[k].name,
                              db_type |-> op.fields[k].db_type,
                              annotations |-> op.fields[k].annotations]]]
      [] op.Type = "RenameModel" ->
            [builder |-> "AlterTable", name |-> op.old,
             operation |-> [Type |-> "RenameTo", name |-> op.new]]
      [] op.Type = "DeleteModel" -> [builder |-> "DropTable", name |-> op.name]
      [] op.Type = "CreateField" ->
            [builder |-> "AlterTable", name |-> op.model,
             operation |-> [Type |-> "AddColumn",
                            operation |-> [table |-> op.model, name |-> op.field.name,
                                           db_type |-> op.field.db_type,
                                           annotations |-> op.field.annotations]]]
      [] op.Type = "RenameField" ->
            [builder |-> "AlterTable", name |-> op.table_name,
             operation |-> [Type |-> "RenameColumnTo", column_name |-> op.old,
                            new_column_name |-> op.new]]
      [] op.Type = "DeleteField" ->
            [builder |-> "AlterTable", name |-> op.model,
             operation |-> [Type |-> "DropColumn", name |-> op.name]]

\* Whether the dialect builds the statement of an operation.
Builds(op) == build(db_impl, TableRow(op)).tag = "Ok"

\* The positions of the backend calls named fn made for the operation at pos.
CallsOf(fn, pos) == {n \in 1..Len(calls) : calls[n].fn = fn /\ calls[n].pos = pos}

\* The loop over the operations has ended without a failed build.
LoopThrough == pc \in {"loop", "done"} /\ i > Len(Ops)

\* C1: when every operation of the migration builds, the transaction the
\* loop leaves (and the Script finished from it) holds exactly one statement
\* per operation, the statement at position k being the one of operations[k].
C1_StatementPerOperation ==
    /\ LoopThrough =>
          /\ Len(transaction) = Len(Ops)
          /\ \A k \in 1..Len(transaction) : transaction[k] = TableRow(Ops[k])
    /\ (pc = "done" /\ result.tag = "Ok") =>
          /\ Len(result.value.statements) = Len(Ops)
          /\ \A k \in 1..Len(Ops) : result.value.statements[k] = TableRow(Ops[k])

C1_Witness ==
    /\ pc = "done"
    /\ result.tag = "Ok"
    /\ Len(Ops) = 2
    /\ Ops[1].Type = "DeleteField"
    /\ Ops[2].Type = "CreateModel"

\* The statement s plays the roles the table gives for the operation op.
InRoles(op, s) ==
    CASE op.Type = "CreateModel" ->
            /\ s.builder = "CreateTable"
            /\ s.name = op.name
            /\ Len(s.columns) = Len(op.fields)
      [] op.Type = "RenameModel" ->
            /\ s.builder = "AlterTable"
            /\ s.name = op.old
            /\ s.operation.Type = "RenameTo"
            /\ s.operation.name = op.new
      [] op.Type = "DeleteModel" ->
            /\ s.builder = "DropTable"
            /\ s.name = op.name
      [] op.Type = "CreateField" ->
            /\ s.builder = "AlterTable"
            /\ s.name = op.model
            /\ s.operation.Type = "AddColumn"
            /\ s.operation.operation.table = op.model
            /\ s.operation.operation.name = op.field.name
            /\ s.operation.operation.db_type = op.field.db_type
            /\ s.operation.operation.annotations = op.field.annotations
      [] op.Type = "RenameField" ->
            /\ s.builder = "AlterTable"
            /\ s.name = op.table_name
            /\ s.operation.Type = "RenameColumnTo"
            /\ s.operation.column_name = op.old
            /\ s.operation.new_column_name = op.new
      [] op.Type = "DeleteField" ->
            /\ s.builder = "AlterTable"
            /\ s.name = op.model
            /\ s.operation.Type = "DropColumn"
            /\ s.operation.name = op.name

\* C2: every statement added to the transaction, in any call and at any
\* point of it, is the backend call of the table for its operation with the
\* arguments in their roles (old and new not swapped, the table the
\* operation's own); the table builder of a CreateModel is the one of its name.
C2_OperationTable ==
    /\ \A k \in 1..Len(transaction) :
          (pc # "idle" /\ k <= Len(Ops)) => InRoles(Ops[k], transaction[k])
    /\ pc = "fields" => create_table.builder = "CreateTable" /\ create_table.name = Ops[i].name

C2_Witness ==
    /\ pc = "done"
    /\ result.tag = "Ok"
    /\ Len(Ops) = 2
    /\ Ops[1].Type = "RenameModel"
    /\ Ops[2].Type = "RenameField"

\* C3: a CreateModel with N fields compiles to one create-table statement
\* that received N add_column calls, the k-th carrying the column of the
\* k-th field (the table's name, the field's name, type and annotations).
C3_CreateModelColumns ==
    \A k \in 1..Len(transaction) :
        (pc # "idle" /\ k <= Len(Ops) /\ Ops[k].Type = "CreateModel") =>
            LET s == transaction[k]
                fields == Ops[k].fields
            IN  /\ s.builder = "CreateTable"
                /\ Len(s.columns) = Len(fields)
                /\ \A c \in 1..Len(fields) :
                      s.columns[c] =
                          [table |-> Ops[k].name, name |-> fields[c].name,
                           db_type |-> fields[c].db_type,
                           annotations |-> fields[c].annotations]
                /\ Cardinality(CallsOf("create_table", k)) = 1
                /\ Cardinality(CallsOf("add_column", k)) = Len(fields)
                /\ Cardinality(CallsOf("add_statement", k)) = 1

C3_Witness ==
    /\ pc = "done"
    /\ result.tag = "Ok"
    /\ Len(Ops) = 1
    /\ Ops[1].Type = "CreateModel"
    /\ Ops[1].fields = <<FieldName, FieldId>>
    /\ Len(transaction[1].columns) = 2

\* C4: the call returns a Script exactly when the build of every operation
\* and the finish succeed; otherwise it returns an error and no Script, in
\* particular none of the statements built before the failure.
C4_AllOrNothing ==
    pc = "done" =>
        /\ result.tag \in {"Ok", "Err"}
        /\ result.tag = "Ok" <=>
              /\ \A k \in 1..Len(Ops) : Builds(Ops[k])
              /\ finish(db_impl, transaction).tag = "Ok"
        /\ result.tag = "Ok" => Len(result.value.statements) = Len(Ops)
        /\ result.tag = "Err" => "value" \notin DOMAIN result

C4_Witness ==
    /\ pc = "done"
    /\ result.tag = "Err"
    /\ Len(Ops) = 2
    /\ i = 2
    /\ Len(transaction) = 1

\* The recorded call n failed at the build of one of its operations.
FailedAtOperation(n) ==
    /\ history[n].result.tag = "Err"
    /\ history[n].position <= Len(history[n].migration.operations)

\* C5: the error of a failed build identifies the migration and the 1-based
\* position of the failing operation: two such errors that are the same
\* error are of the same migration id and the same position.
C5_PositionIdentified ==
    \A a, b \in 1..Len(history) :
        (FailedAtOperation(a) /\ FailedAtOperation(b)
            /\ history[a].result = history[b].result)
        => /\ history[a].migration.id = history[b].migration.id
           /\ history[a].position = history[b].position

\* C6: compiling the same migration twice in a row, with the same dialect,
\* gives the same outcome both times.
C6_Deterministic ==
    \A n \in 1..Len(history) :
        (n < Len(history) /\ history[n].migration = history[n + 1].migration)
        => history[n].result = history[n + 1].result

C6_Witness ==
    /\ Len(history) >= 2
    /\ history[1].migration = history[2].migration
    /\ history[2].result.tag = "Ok"
    /\ Len(history[2].result.value.statements) = 2

\* What a call holds is of its own migration alone.
OwnStateOnly ==
    pc \in {"loop", "fields", "done"} =>
        /\ Len(transaction) <= Len(Ops)
        /\ \A k \in 1..Len(transaction) :
              k <= Len(Ops) => transaction[k] = TableRow(Ops[k])
        /\ pc \in {"loop", "fields"} => Len(transaction) = i - 1
        /\ pc = "fields" =>
              /\ create_table.builder = "CreateTable"
              /\ Len(create_table.columns) = j - 1

\* C7: what is compiled for a migration does not depend on the calls made
\* before: the outcome is the same after other migrations were compiled
\* (successfully or not) as before them, and no call starts from statements
\* or columns of an earlier one.
C7_IndependentOfEarlierCalls ==
    /\ OwnStateOnly
    /\ \A a, b \in 1..Len(history) :
          ( /\ a < b
            /\ history[a].migration = history[b].migration
            /\ \E c \in 1..Len(history) :
                  a < c /\ c < b /\ history[c].migration # history[a].migration )
          => history[a].result = history[b].result

C7_Witness ==
    /\ Len(history) = 3
    /\ history[1].migration = history[3].migration
    /\ history[2].migration # history[1].migration
    /\ history[2].result.tag = "Err"
    /\ history[2].position = 2
    /\ history[3].result.tag = "Ok"
    /\ Len(history[3].result.value.statements) = 1

\* C8: in one call, start_transaction is the first backend call and made
\* once; finish is made at most once, as the last call, after a statement
\* was added for every operation; and a failed build is the last backend
\* call of the call (none for a later operation, and no finish).
C8_CallOrder ==
    /\ pc # "idle" => Len(calls) >= 1
    /\ \A n \in 1..Len(calls) :
          /\ calls[n].fn = "start_transaction" <=> n = 1
          /\ calls[n].fn = "finish" =>
                /\ n = Len(calls)
                /\ \A p \in 1..Len(Ops) :
                      \E m \in 1..(n - 1) : calls[m] = BackendCall("add_statement", p, TRUE)
          /\ (calls[n].fn = "build" /\ ~calls[n].ok) => n = Len(calls)
          /\ \A m \in 1..n : calls[m].pos <= calls[n].pos \/ calls[n].fn = "finish"

C8_Witness ==
    /\ pc = "done"
    /\ Len(Ops) = 2
    /\ calls[Len(calls)] = BackendCall("build", 1, FALSE)

\* C9: a migration of no operation is compiled: the transaction is started
\* and finished with no statement added, and the call returns that empty
\* Script when finish succeeds, the finish's error labelled with the
\* migration's id when it does not.
C9_EmptyMigration ==
    (pc = "done" /\ Ops = << >>) =>
        /\ calls = <<BackendCall("start_transaction", 0, TRUE),
                     BackendCall("finish", 0, result.tag = "Ok")>>
        /\ transaction = << >>
        /\ IF finish(db_impl, << >>).tag = "Ok"
           THEN result = [tag |-> "Ok", value |-> [statements |-> << >>]]
           ELSE /\ result.tag = "Err"
                /\ result.context =
                       <<"Could not create transaction for migration {}", migration.id>>

C9_Witness ==
    /\ pc = "done"
    /\ Ops = << >>
    /\ migration.id = "0002"
    /\ result.tag = "Ok"

\* C10: the migration is what it was when the call began, at every point
\* of the call and after it, whatever the call returns.
C10_MigrationUnchanged == migration = before

C10_Witness ==
    /\ pc = "done"
    /\ result.tag = "Err"
    /\ Len(Ops) = 2
    /\ Ops[1].Type = "CreateModel"
    /\ Len(Ops[1].fields) = 2
    /\ before.operations = Ops

====
